---- MODULE Spec2Model ----
(***************************************************************************)
(* Model of tikapy (src/tikapy/__init__.py): the RouterOS API client       *)
(* sessions TikapyBaseClient / TikapyClient / TikapySslClient.             *)
(*                                                                         *)
(* A session object is followed from the end of TikapyBaseClient.__init__  *)
(* through the subclass constructor, login(), talk(), disconnect() and     *)
(* __del__.  login() is modelled step by step (address resolution, one     *)
(* step per candidate address, the check after the loop, the transport     *)
(* wrapping of _connect, the authentication exchange), because its         *)
(* intermediate states are visible to the operating system and the peer.   *)
(* Sockets are objects of the environment: each has an identity and a      *)
(* descriptor state.  The protocol engine (tikapy.api.ApiRos) is an        *)
(* external collaborator whose calls are observed and whose answers are    *)
(* chosen by the environment.                                              *)
(***************************************************************************)
EXTENDS Integers, Sequences, FiniteSets, TLC

VARIABLES
    phase,        \* "new": TikapyBaseClient.__init__ has run; "live": constructed; "dead": collected
    kind,         \* "base" | "plain" | "ssl": the class of the instance
    platform,     \* os.name of the host, "nt" | "posix"; "unread" until line 262 reads it
    adh_ok,       \* whether the host's TLS library can select the ADH cipher string:
                  \* "yes" | "no"; "unread" until set_ciphers() is first called
    verify_cert,  \* TikapySslClient.verify_cert
    verify_addr,  \* TikapySslClient.verify_addr
    _address,     \* self._address: <<>> is None, <<a>> the value a
    _port,        \* self._port:    <<>> is None, <<p>> the value p
    _base_sock,   \* self._base_sock: NoSock or a socket identity
    _sock,        \* self._sock
    _api,         \* self._api: NoSock (None) or the socket the engine was built on
    socks,        \* descriptor state of every socket object: identity -> state
    pc,           \* position inside login(): "idle" between calls
    cands,        \* getaddrinfo() results still to be tried by the running login()
    allow,        \* allow_insecure_auth_without_tls of the running login()
    created,      \* sockets created by the running / last login()
    tried,        \* candidates attempted by the running / last login(), in order
    ready,        \* the last login() returned normally and disconnect() was not called since
    outcome,      \* how the last call ended: [op, exc, msg]
    engine,       \* what the last call did with the protocol engine
    ctx,          \* the SSLContext settings handed to the last wrap_socket()
    tikoutput,    \* argument of the last tik_to_json() call
    result        \* value or exception of the last tik_to_json() call

vars == << phase, kind, platform, adh_ok, verify_cert, verify_addr, _address, _port,
           _base_sock, _sock, _api, socks, pc, cands, allow, created, tried,
           ready, outcome, engine, ctx, tikoutput, result >>

sessionVars == << phase, kind, platform, adh_ok, verify_cert, verify_addr, _address, _port,
                  _base_sock, _sock, _api, socks, pc, cands, allow, created, tried,
                  ready, outcome, engine, ctx >>

-----------------------------------------------------------------------------
(* Bounds of the model *)

MaxSockets == 4     \* socket objects created during one run
MaxCands == 2       \* addresses returned by one getaddrinfo() call

(* Program constants *)

NoSock == 0                 \* None in a socket or engine handle
PortLow == 0                \* exclusive lower limit of a port number
PortHigh == 65536           \* exclusive upper limit of a port number
DefaultPort == 8728         \* TikapyClient default port
DefaultSslPort == 8729      \* TikapySslClient default port

SockIds == 1..MaxSockets
None == <<>>
Some(x) == <<x>>

Addresses == {"", "router"}
PortInputs == {0 - 1, 0, 1, PortHigh - 1, PortHigh, PortHigh + 4464}
CandOutcomes == {"sockfail", "connfail", "ok"}
CandLists == UNION {[1..n -> CandOutcomes] : n \in 1..MaxCands}

-----------------------------------------------------------------------------
(* Outcomes of a call *)

Ok(op) == [op |-> op, exc |-> "none", msg |-> ""]
Raised(op, exc, msg) == [op |-> op, exc |-> exc, msg |-> msg]

\* made: ApiRos was constructed; login: how its login() was called; talk: its
\* talk() was called; reply: how the engine call ended
NoEngine == [made |-> FALSE, login |-> "none", talk |-> FALSE, reply |-> "none"]
NoCtx == [tls |-> "none", verify_mode |-> "unset", check_hostname |-> FALSE, ciphers |-> "unset"]
NoVal == [t |-> "none"]
NoResult == [exc |-> "pending", v |-> NoVal]

-----------------------------------------------------------------------------
(* Socket objects *)

\* st: "unborn" (not created), "open" (owns a descriptor), "closed",
\* "detached" (its descriptor was taken over by an SSLSocket); tls: an SSLSocket
NewSock(st, tls) == [st |-> st, tls |-> tls]
Unborn == {s \in SockIds : socks[s].st = "unborn"}
OpenSocks == {s \in SockIds : socks[s].st = "open"}
FreshSock == CHOOSE s \in Unborn : \A u \in Unborn : s <= u

\* bool(x) of a handle: None is false, every socket object is true
Truthy(h) == h # NoSock

\* socket.close(): releases the descriptor if the object still owns one
Close(ss, h) ==
    IF Truthy(h) /\ ss[h].st = "open" THEN [ss EXCEPT ![h].st = "closed"] ELSE ss

\* an object is referenced by the session, or by the engine the session holds
Referenced(s) == phase # "dead" /\ s \in {_base_sock, _sock, _api}

-----------------------------------------------------------------------------
Init ==
    /\ phase = "new"
    /\ kind = "base"
    /\ platform = "unread"
    /\ adh_ok = "unread"
    /\ verify_cert = TRUE
    /\ verify_addr = TRUE
    /\ _address = None
    /\ _port = None
    /\ _base_sock = NoSock
    /\ _sock = NoSock
    /\ _api = NoSock
    /\ socks = [s \in SockIds |-> NewSock("unborn", FALSE)]
    /\ pc = "idle"
    /\ cands = <<>>
    /\ allow = FALSE
    /\ created = {}
    /\ tried = <<>>
    /\ ready = FALSE
    /\ outcome = Ok("init")
    /\ engine = NoEngine
    /\ ctx = NoCtx
    /\ tikoutput = NoVal
    /\ result = NoResult

-----------------------------------------------------------------------------
(* port setter, lines 71-82 *)

\* mutant: the upper limit taken as inclusive
PortValidInclusive(value) == PortLow < value /\ value <= PortHigh

PortValid(value) == PortLow < value /\ value < PortHigh

PortAfterSet(old, value) == IF PortValid(value) THEN Some(value) ELSE old

PortSetOutcome(op, value) ==
    IF PortValid(value) THEN Ok(op)
    ELSE Raised(op, "ValueError", "invalid port number specified")

-----------------------------------------------------------------------------
(* Python values handled by tik_to_json, lines 194-211.                     *)
(* A str is its sequence of characters; a dict is its sequence of items in  *)
(* insertion order; list and tuple are kept apart.                          *)

VNone == [t |-> "none"]
VInt == [t |-> "int"]
VStr(chars) == [t |-> "str", s |-> chars]
VList(items) == [t |-> "list", items |-> items]
VTuple(items) == [t |-> "tuple", items |-> items]
VDict(items) == [t |-> "dict", items |-> items]
Item(k, v) == [k |-> k, v |-> v]

Returns(v) == [exc |-> "none", v |-> v]
Raises(e) == [exc |-> e, v |-> VNone]

DoneTag == VStr(<<"!", "d", "o", "n", "e">>)
ReTag == VStr(<<"!", "r", "e">>)
KeyRet == VStr(<<"r", "e", "t">>)
KeyId == VStr(<<".", "i", "d">>)
KeyName == VStr(<<"n", "a", "m", "e">>)

\* x[i] for an integer i >= 0
Subscript(x, i) ==
    CASE x.t \in {"list", "tuple"} ->
            IF i < Len(x.items) THEN Returns(x.items[i + 1]) ELSE Raises("IndexError")
      [] x.t = "str" ->
            IF i < Len(x.s) THEN Returns(VStr(<<x.s[i + 1]>>)) ELSE Raises("IndexError")
      [] x.t = "dict" -> Raises("KeyError")
      [] OTHER -> Raises("TypeError")

HasKey(d, k) == \E i \in 1..Len(d.items) : d.items[i].k = k
Lookup(d, k) == d.items[CHOOSE i \in 1..Len(d.items) : d.items[i].k = k].v

\* x[k] for a str k
GetItem(x, k) ==
    IF x.t = "dict"
    THEN IF HasKey(x, k) THEN Returns(Lookup(x, k)) ELSE Raises("KeyError")
    ELSE Raises("TypeError")

\* mutant: the whole value, marker included
SliceWhole(x) ==
    IF x.t \in {"str", "list", "tuple"} THEN Returns(x) ELSE Raises("TypeError")

\* x[1:]
SliceFrom1(x) ==
    CASE x.t = "str" -> Returns(VStr(IF x.s = <<>> THEN <<>> ELSE Tail(x.s)))
      [] x.t = "list" -> Returns(VList(IF x.items = <<>> THEN <<>> ELSE Tail(x.items)))
      [] x.t = "tuple" -> Returns(VTuple(IF x.items = <<>> THEN <<>> ELSE Tail(x.items)))
      [] OTHER -> Raises("TypeError")

\* hash(x) succeeds (records hold hashable members only in this model)
Hashable(x) == x.t \in {"str", "none", "int", "tuple"}

\* the elements "for x in v" yields
Iterate(v) ==
    CASE v.t \in {"list", "tuple"} -> Returns(VList(v.items))
      [] v.t = "str" -> Returns(VList([i \in 1..Len(v.s) |-> VStr(<<v.s[i]>>)]))
      [] v.t = "dict" -> Returns(VList([i \in 1..Len(v.items) |-> v.items[i].k]))
      [] OTHER -> Raises("TypeError")

\* d[k] = v on an insertion-ordered dict
DictSet(items, k, v) ==
    IF \E i \in 1..Len(items) : items[i].k = k
    THEN [i \in 1..Len(items) |-> IF items[i].k = k THEN Item(k, v) ELSE items[i]]
    ELSE Append(items, Item(k, v))

-----------------------------------------------------------------------------
(* tik_to_json, lines 194-211 *)

NotTaken == [exc |-> "pass", v |-> VNone]

\* lines 202-203: the value returned, the exception raised, or NotTaken when
\* the comparison with '!done' is false
ScalarBranch(x) ==
    LET a == Subscript(x, 0) IN
    IF a.exc # "none" THEN a ELSE
    LET b == Subscript(a.v, 0) IN
    IF b.exc # "none" THEN b ELSE
    IF b.v # DoneTag THEN NotTaken ELSE
    LET c == Subscript(a.v, 1) IN
    IF c.exc # "none" THEN c ELSE GetItem(c.v, KeyRet)

\* line 204: except (IndexError, KeyError): pass
ScalarSwallowed(e) == e \in {"IndexError", "KeyError"}

\* line 208-209, the comprehension over the attribute parts, in order
RECURSIVE BuildMapping(_, _)
BuildMapping(ds, acc) ==
    IF ds = <<>> THEN Returns(VDict(acc)) ELSE
    LET d == Head(ds) IN
    IF d.t # "dict" THEN Raises("AttributeError") ELSE
    IF ~HasKey(d, KeyId) THEN BuildMapping(Tail(ds), acc) ELSE
    LET k == SliceFrom1(Lookup(d, KeyId)) IN
    IF k.exc # "none" THEN k ELSE
    IF ~Hashable(k.v) THEN Raises("TypeError") ELSE
    BuildMapping(Tail(ds), DictSet(acc, k.v, d))

\* lines 207-209: [x[1] for x in tikoutput] is built first, then the dict
MappingBranch(x) ==
    LET it == Iterate(x) IN
    IF it.exc # "none" THEN it ELSE
    LET xs == it.v.items
        rs == [i \in 1..Len(xs) |-> Subscript(xs[i], 1)]
        bad == {i \in 1..Len(xs) : rs[i].exc # "none"}
    IN  IF bad # {}
        THEN Raises(rs[CHOOSE i \in bad : \A j \in bad : i <= j].exc)
        ELSE BuildMapping([i \in 1..Len(xs) |-> rs[i].v], <<>>)

\* line 210: except (TypeError, IndexError) -> ClientError
MappingTranslated(e) == e \in {"TypeError", "IndexError"}

\* lines 206-211: the second try block as a whole
MappingStep(x) ==
    LET r2 == MappingBranch(x) IN
    IF MappingTranslated(r2.exc) THEN Raises("ClientError") ELSE r2

\* mutant: a non-empty mapping wins over the scalar
tik_to_json_mapping_first(x) ==
    LET r1 == ScalarBranch(x)
        r2 == MappingBranch(x)
    IN  IF r2.exc = "none" /\ r2.v.items # <<>> THEN r2
        ELSE IF r1.exc = "none" THEN r1
        ELSE IF r1.exc # "pass" /\ ~ScalarSwallowed(r1.exc) THEN r1
        ELSE MappingStep(x)

tik_to_json(x) ==
    LET r1 == ScalarBranch(x) IN
    IF r1.exc = "none" THEN r1
    ELSE IF r1.exc # "pass" /\ ~ScalarSwallowed(r1.exc) THEN r1
    ELSE MappingStep(x)

\* the message an exception of tik_to_json carries
JsonMsg(e) == IF e = "ClientError" THEN "unable to convert api output to json" ELSE ""

-----------------------------------------------------------------------------
(* Inputs of tik_to_json *)

MaxRecords == 3     \* records in one sentence

RetVals == {VStr(<<"4", "2">>)}
IdVals == {VStr(<<"*", "1">>), VStr(<<"*", "2">>), VNone}
RetPart == {<<>>} \cup {<<Item(KeyRet, v)>> : v \in RetVals}
IdPart == {<<>>} \cup {<<Item(KeyId, v)>> : v \in IdVals}
AttrDicts == {VDict(r \o i) : r \in RetPart, i \in IdPart}
Records == {VTuple(<<tag, at>>) : tag \in {DoneTag, ReTag}, at \in AttrDicts}
OddRecords == {VTuple(<<DoneTag>>), VTuple(<<DoneTag, VNone>>),
               VTuple(<<ReTag, VStr(<<"x", "y">>)>>), VNone, VDict(<<>>)}
Sentences == {VList(q) : q \in UNION {[1..n -> Records \cup OddRecords] : n \in 0..MaxRecords}}
OddSentences == {VNone, VInt, VStr(<<"a", "b">>), VStr(<<>>), VDict(<<>>)}
JsonInputs == Sentences \cup OddSentences

\* what the engine's talk() hands back in the session model
TalkSentences ==
    { VList(<<VTuple(<<DoneTag, VDict(<<Item(KeyRet, VStr(<<"4", "2">>))>>)>>)>>),
      VList(<<VTuple(<<ReTag, VDict(<<Item(KeyId, VStr(<<"*", "1">>))>>)>>),
              VTuple(<<DoneTag, VDict(<<>>)>>)>>),
      VList(<<VTuple(<<DoneTag, VDict(<<>>)>>)>>) }

\* a direct call of the static method on the input drawn at the start
Normalize ==
    /\ result = NoResult
    /\ result' = tik_to_json(tikoutput)
    /\ UNCHANGED << sessionVars, tikoutput >>

InitNorm ==
    /\ phase = "new"
    /\ kind = "base"
    /\ platform = "unread"
    /\ adh_ok = "unread"
    /\ verify_cert = TRUE
    /\ verify_addr = TRUE
    /\ _address = None
    /\ _port = None
    /\ _base_sock = NoSock
    /\ _sock = NoSock
    /\ _api = NoSock
    /\ socks = [s \in SockIds |-> NewSock("unborn", FALSE)]
    /\ pc = "idle"
    /\ cands = <<>>
    /\ allow = FALSE
    /\ created = {}
    /\ tried = <<>>
    /\ ready = FALSE
    /\ outcome = Ok("init")
    /\ engine = NoEngine
    /\ ctx = NoCtx
    /\ tikoutput \in JsonInputs
    /\ result = NoResult

NextNorm == Normalize

SpecNorm == InitNorm /\ [][NextNorm]_vars

-----------------------------------------------------------------------------
(* Constructors, lines 38-46, 219-227, 235-248 *)

AddressInputs == {Some(a) : a \in Addresses}

\* TikapyBaseClient(): nothing beyond the base initialisation
ConstructBase ==
    /\ phase = "new"
    /\ phase' = "live"
    /\ kind' = "base"
    /\ outcome' = Ok("init")
    /\ UNCHANGED << ready, platform, adh_ok, verify_cert, verify_addr, _address, _port, _base_sock,
                    _sock, _api, socks, pc, cands, allow, created, tried, engine,
                    ctx, tikoutput, result >>

\* TikapyClient(address, port): the address setter, then the port setter; a
\* port that is refused ends the construction and the object is discarded
ConstructClient(address, port) ==
    /\ phase = "new"
    /\ kind' = "plain"
    /\ _address' = address
    /\ _port' = PortAfterSet(_port, port)
    /\ outcome' = PortSetOutcome("init", port)
    /\ phase' = IF outcome'.exc = "none" THEN "live" ELSE "dead"
    /\ UNCHANGED << ready, platform, adh_ok, verify_cert, verify_addr, _base_sock, _sock, _api,
                    socks, pc, cands, allow, created, tried, engine, ctx,
                    tikoutput, result >>

\* TikapySslClient(address, port, verify_cert, verify_addr)
ConstructSslClient(address, port, vc, va) ==
    /\ phase = "new"
    /\ kind' = "ssl"
    /\ _address' = address
    /\ _port' = PortAfterSet(_port, port)
    /\ outcome' = PortSetOutcome("init", port)
    /\ phase' = IF outcome'.exc = "none" THEN "live" ELSE "dead"
    /\ verify_cert' = IF outcome'.exc = "none" THEN vc ELSE verify_cert
    /\ verify_addr' = IF outcome'.exc = "none" THEN va ELSE verify_addr
    /\ UNCHANGED << ready, platform, adh_ok, _base_sock, _sock, _api, socks, pc, cands, allow,
                    created, tried, engine, ctx, tikoutput, result >>

-----------------------------------------------------------------------------
(* address and port setters, lines 56-61 and 71-82 *)

\* the records kept of the last login() are dropped by any later call
ForgetLogin ==
    /\ cands' = <<>> /\ allow' = FALSE /\ created' = {} /\ tried' = <<>>
    /\ ctx' = NoCtx

\* lines 48-54 and 63-69: the getters hand out the stored value
GetAddress ==
    /\ phase = "live" /\ pc = "idle"
    /\ outcome' = [Ok("get_address") EXCEPT !.msg = IF _address = None THEN "None" ELSE _address[1]]
    /\ engine' = NoEngine
    /\ tikoutput' = NoVal /\ result' = NoResult
    /\ ForgetLogin
    /\ UNCHANGED << ready, phase, kind, platform, adh_ok, verify_cert, verify_addr, _address, _port,
                    _base_sock, _sock, _api, socks, pc >>

GetPort ==
    /\ phase = "live" /\ pc = "idle"
    /\ outcome' = [Ok("get_port") EXCEPT !.msg = IF _port = None THEN "None" ELSE ToString(_port[1])]
    /\ engine' = NoEngine
    /\ tikoutput' = NoVal /\ result' = NoResult
    /\ ForgetLogin
    /\ UNCHANGED << ready, phase, kind, platform, adh_ok, verify_cert, verify_addr, _address, _port,
                    _base_sock, _sock, _api, socks, pc >>

\* mutant: assigning the address drops the connection
SetAddressDisconnecting(value) ==
    /\ phase = "live" /\ pc = "idle"
    /\ _address' = value
    /\ socks' = Close(socks, _sock)
    /\ _sock' = NoSock /\ _base_sock' = NoSock /\ _api' = NoSock
    /\ outcome' = Ok("set_address")
    /\ engine' = NoEngine
    /\ tikoutput' = NoVal /\ result' = NoResult
    /\ ForgetLogin
    /\ UNCHANGED << ready, phase, kind, platform, adh_ok, verify_cert, verify_addr, _port, pc >>

SetAddress(value) ==
    /\ phase = "live" /\ pc = "idle"
    /\ _address' = value
    /\ outcome' = Ok("set_address")
    /\ engine' = NoEngine
    /\ tikoutput' = NoVal /\ result' = NoResult
    /\ ForgetLogin
    /\ UNCHANGED << ready, phase, kind, platform, adh_ok, verify_cert, verify_addr, _port,
                    _base_sock, _sock, _api, socks, pc >>

SetPort(value) ==
    /\ phase = "live" /\ pc = "idle"
    /\ _port' = PortAfterSet(_port, value)
    /\ outcome' = PortSetOutcome("set_port", value)
    /\ engine' = NoEngine
    /\ tikoutput' = NoVal /\ result' = NoResult
    /\ ForgetLogin
    /\ UNCHANGED << ready, phase, kind, platform, adh_ok, verify_cert, verify_addr, _address,
                    _base_sock, _sock, _api, socks, pc >>

-----------------------------------------------------------------------------
(* login(), lines 159-177, with _connect_socket (105-146) and _connect      *)
(* (148-157, 250-280)                                                        *)

\* "not self.address" / "not self.port": None, the empty string and 0 are false
AddressFalsy(opt) == opt = None \/ opt = Some("")

\* mutant: only a port of 0 counts as missing
PortFalsyZeroOnly(opt) == opt = Some(0)

PortFalsy(opt) == opt = None \/ opt = Some(0)

\* sockets the login() about to start may create
Needs(net) == Len(net) + (IF kind = "ssl" THEN 1 ELSE 0)

Running(op) == [op |-> op, exc |-> "running", msg |-> ""]

\* lines 116-125: the two checks, then getaddrinfo(); net is what the resolver
\* answers: the candidates in its order, or <<>> when it raises gaierror
LoginStart(a, net) ==
    /\ phase = "live" /\ pc = "idle"
    /\ Cardinality(Unborn) >= Needs(net)
    /\ allow' = a
    /\ created' = {}
    /\ tried' = <<>>
    /\ engine' = NoEngine
    /\ ctx' = NoCtx
    /\ tikoutput' = NoVal /\ result' = NoResult
    /\ IF AddressFalsy(_address) \/ PortFalsy(_port)
       THEN /\ outcome' = Raised("login", "ClientError", "address has not been set")
            /\ pc' = "idle" /\ cands' = <<>>
       ELSE IF net = <<>>
       THEN /\ outcome' = Raised("login", "gaierror", "")
            /\ pc' = "idle" /\ cands' = <<>>
       ELSE /\ outcome' = Running("login")
            /\ pc' = "connect" /\ cands' = net
    /\ ready' = FALSE
    /\ UNCHANGED << phase, kind, platform, adh_ok, verify_cert, verify_addr, _address, _port,
                    _base_sock, _sock, _api, socks >>

\* mutant: the socket that could not connect is dropped without close()
ConnectFailedNoClose(ss, n) == [ss EXCEPT ![n] = NewSock("open", FALSE)]

\* lines 136-139: the socket that could not connect is closed
ConnectFailed(ss, n) == [ss EXCEPT ![n] = NewSock("closed", FALSE)]

\* mutant: the candidates taken from the end of the list
NextIndexFromEnd == Len(cands) - Len(tried)

\* the candidate the for loop of line 121 takes next
NextIndex == Len(tried) + 1

\* lines 127-140: one pass of the loop body
TryCandidate ==
    LET i == NextIndex
        c == cands[i]
        n == FreshSock
    IN  /\ pc = "connect"
        /\ tried' = Append(tried, i)
        /\ CASE c = "sockfail" ->
                    /\ _base_sock' = NoSock
                    /\ UNCHANGED << socks, created >>
                    /\ pc' = IF i = Len(cands) THEN "afterloop" ELSE "connect"
             [] c = "connfail" ->
                    /\ socks' = ConnectFailed(socks, n)
                    /\ created' = created \cup {n}
                    /\ _base_sock' = NoSock
                    /\ pc' = IF i = Len(cands) THEN "afterloop" ELSE "connect"
             [] c = "ok" ->
                    /\ socks' = [socks EXCEPT ![n] = NewSock("open", FALSE)]
                    /\ created' = created \cup {n}
                    /\ _base_sock' = n
                    /\ pc' = "afterloop"
        /\ UNCHANGED << ready, phase, kind, platform, adh_ok, verify_cert, verify_addr, _address,
                        _port, _sock, _api, cands, allow, outcome, engine, ctx,
                        tikoutput, result >>

\* lines 142-146
AfterLoop ==
    /\ pc = "afterloop"
    /\ IF _base_sock = NoSock
       THEN /\ outcome' = Raised("login", "ClientError", "could not open socket")
            /\ pc' = "idle"
       ELSE /\ pc' = "wrap"
            /\ UNCHANGED outcome
    /\ UNCHANGED << ready, phase, kind, platform, adh_ok, verify_cert, verify_addr, _address, _port,
                    _base_sock, _sock, _api, socks, cands, allow, created, tried,
                    engine, ctx, tikoutput, result >>

\* line 157: the plain clients use the base socket as it is
ConnectPlain ==
    /\ pc = "wrap" /\ kind # "ssl"
    /\ _sock' = _base_sock
    /\ pc' = "auth"
    /\ UNCHANGED << ready, phase, kind, platform, adh_ok, verify_cert, verify_addr, _address, _port,
                    _base_sock, _api, socks, cands, allow, created, tried, outcome,
                    engine, ctx, tikoutput, result >>

\* mutant: the flags ignored on every host
SslContextIgnoringFlags(os, vc, va) ==
    [tls |-> "set", verify_mode |-> "CERT_OPTIONAL", check_hostname |-> FALSE,
     ciphers |-> IF os = "nt" THEN "ADH:@SECLEVEL=0" ELSE "ADH"]

\* lines 262-274: the settings of the SSLContext
SslContext(os, vc, va) ==
    IF os = "nt"
    THEN [tls |-> "set",
          verify_mode |-> IF ~vc THEN "CERT_OPTIONAL" ELSE "CERT_REQUIRED",
          check_hostname |-> IF ~va THEN FALSE ELSE TRUE,
          ciphers |-> "ADH:@SECLEVEL=0"]
    ELSE [tls |-> "set",
          verify_mode |-> "CERT_OPTIONAL",
          check_hostname |-> FALSE,
          ciphers |-> "ADH"]

\* what the TLS layer does: "ctxfail" SSLError while the context is set up
\* (set_ciphers finds no cipher), "hsfail" SSLError in the handshake,
\* "oserror" another OSError in the handshake (timeout, connection reset), "ok"
TlsResults == {"ctxfail", "hsfail", "oserror", "ok"}

\* line 276: except ssl.SSLError
SslErrorCaught(t) == t \in {"ctxfail", "hsfail"}

\* how _connect ends for a TLS result
SslOutcome(t) ==
    IF SslErrorCaught(t)
    THEN Raised("login", "ClientError", "could not establish SSL connection")
    ELSE IF t = "ok" THEN Running("login") ELSE Raised("login", "OSError", "")

\* wrap_socket(): the SSLSocket takes over the descriptor of the socket it is
\* given (socket.detach) and closes itself when the handshake raises
WrapSocket(ss, base, n, t) ==
    [ss EXCEPT ![base].st = "detached",
               ![n] = NewSock(IF t = "ok" THEN "open" ELSE "closed", TRUE)]

\* the facts of the host: they are fixed, and seen when the code first asks
Platforms == {"nt", "posix"}
AdhAnswers == {"yes", "no"}
SameHost(seen, now) == seen = "unread" \/ seen = now

\* lines 257-280; os and adh are what the host answers to os.name and to
\* set_ciphers()
ConnectSsl(t, os, adh) ==
    LET n == FreshSock IN
    /\ pc = "wrap" /\ kind = "ssl"
    /\ SameHost(platform, os) /\ SameHost(adh_ok, adh)
    /\ platform' = os /\ adh_ok' = adh
    /\ (t = "ctxfail") <=> (adh = "no")
    /\ outcome' = SslOutcome(t)
    /\ pc' = IF t = "ok" THEN "auth" ELSE "idle"
    /\ _sock' = IF t = "ok" THEN n ELSE _sock
    /\ IF t = "ctxfail"
       THEN /\ ctx' = [NoCtx EXCEPT !.tls = t]
            /\ UNCHANGED << socks, created >>
       ELSE /\ ctx' = [SslContext(os, verify_cert, verify_addr) EXCEPT !.tls = t]
            /\ socks' = WrapSocket(socks, _base_sock, n, t)
            /\ created' = created \cup {n}
    /\ UNCHANGED << ready, phase, kind, verify_cert, verify_addr, _address,
                    _port, _base_sock, _api, cands, allow, tried, engine, tikoutput,
                    result >>

\* line 173: hasattr(self._sock, "getpeercert")
HasGetpeercert(h) == socks[h].tls

\* mutant: "and" in place of "or"
SendPlainPasswordBoth(h, a) == HasGetpeercert(h) /\ a

\* line 174
SendPlainPassword(h, a) == HasGetpeercert(h) \/ a

\* answers of the protocol engine's login()
EngineLoginReplies == {"ok", "ApiError", "ApiUnrecoverableError"}

\* mutant: only the recoverable engine error is translated
LoginOutcomeApiErrorOnly(reply) ==
    IF reply = "ApiError"
    THEN Raised("login", "ClientError", "could not login")
    ELSE IF reply = "ok" THEN Ok("login") ELSE Raised("login", reply, "")

\* line 176: except (ApiError, ApiUnrecoverableError)
LoginOutcome(reply) ==
    IF reply \in {"ApiError", "ApiUnrecoverableError"}
    THEN Raised("login", "ClientError", "could not login")
    ELSE IF reply = "ok" THEN Ok("login") ELSE Raised("login", reply, "")

\* mutant: the engine built on the raw socket
ApiRosOnBaseSock(sock) == _base_sock

\* line 171: ApiRos(sock); an engine object is named by the stream it was
\* constructed on
ApiRos(sock) == sock

\* lines 171-177
Authenticate(reply) ==
    /\ pc = "auth"
    /\ _api' = ApiRos(_sock)
    /\ engine' = [made |-> TRUE,
                  login |-> IF SendPlainPassword(_sock, allow) THEN "plain" ELSE "digest",
                  talk |-> FALSE, reply |-> reply]
    /\ outcome' = LoginOutcome(reply)
    /\ pc' = "idle"
    /\ ready' = (reply = "ok")
    /\ UNCHANGED << phase, kind, platform, adh_ok, verify_cert, verify_addr, _address, _port,
                    _base_sock, _sock, socks, cands, allow, created, tried, ctx,
                    tikoutput, result >>

-----------------------------------------------------------------------------
(* talk(), lines 179-192 *)

\* the argument of talk(): the type of the value and the types of its elements
MaxWords == 2      \* elements of the argument of talk()

WordsInputs ==
    {[t |-> "list", items |-> q] : q \in UNION {[1..n -> {"str", "int"}] : n \in 0..MaxWords}}
    \cup {[t |-> "tuple", items |-> <<"str">>], [t |-> "str", items |-> <<>>],
          [t |-> "none", items |-> <<>>]}

\* mutant: the elements are not looked at
ValidWordsListOnly(words) == words.t = "list"

\* line 187: isinstance(words, list) and all(isinstance(x, str) for x in words)
ValidWords(words) ==
    words.t = "list" /\ \A i \in 1..Len(words.items) : words.items[i] = "str"

\* answers of the protocol engine's talk(): a sentence or one of its errors;
\* an engine whose stream is no longer open cannot complete an exchange
EngineTalkReplies(h) ==
    IF socks[h].st = "open"
    THEN {Raises("ApiError"), Raises("ApiUnrecoverableError")}
         \cup {Returns(q) : q \in TalkSentences}
    ELSE {Raises("ApiUnrecoverableError")}

\* lines 188-191: the exchange, its normalisation, the translation of errors
TalkOutcome(reply) ==
    IF reply.exc \in {"ApiError", "ApiUnrecoverableError"}
    THEN Raised("talk", "ClientError", "could not talk to api")
    ELSE LET r == tik_to_json(reply.v) IN
         IF r.exc = "none" THEN Ok("talk") ELSE Raised("talk", r.exc, JsonMsg(r.exc))

Talk(words) ==
    /\ phase = "live" /\ pc = "idle"
    /\ IF ~ValidWords(words)
       THEN /\ outcome' = Raised("talk", "ValueError", "words needs to be a list of strings")
            /\ engine' = NoEngine
            /\ tikoutput' = NoVal /\ result' = NoResult
       ELSE IF _api = NoSock
       THEN /\ outcome' = Raised("talk", "AttributeError", "")
            /\ engine' = NoEngine
            /\ tikoutput' = NoVal /\ result' = NoResult
       ELSE \E reply \in EngineTalkReplies(_api) :
            /\ engine' = [made |-> FALSE, login |-> "none", talk |-> TRUE,
                          reply |-> IF reply.exc = "none" THEN "ok" ELSE reply.exc]
            /\ outcome' = TalkOutcome(reply)
            /\ IF reply.exc = "none"
               THEN tikoutput' = reply.v /\ result' = tik_to_json(reply.v)
               ELSE tikoutput' = NoVal /\ result' = NoResult
    /\ ForgetLogin
    /\ UNCHANGED << ready, phase, kind, platform, adh_ok, verify_cert, verify_addr, _address, _port,
                    _base_sock, _sock, _api, socks, pc >>

-----------------------------------------------------------------------------
(* disconnect() and __del__, lines 84-103 *)

\* what a close() call may raise; closing raises only on a descriptor that is open
CloseResults == {"none", "OSError"}
MayRaise(h, r) == r = "none" \/ (Truthy(h) /\ socks[h].st = "open")

\* mutant: no except clause around close()
CloseSwallowedNever(r) == r = "none"

\* lines 97 and 102: except socket.error: pass
CloseSwallowed(r) == r \in {"none", "OSError"}

\* the sockets after disconnect(): the descriptor is released even when close()
\* reports an error; the second close is reached only if the first did not escape
AfterDisconnect(r1, r2) ==
    LET s1 == Close(socks, _sock) IN
    IF CloseSwallowed(r1) THEN Close(s1, _base_sock) ELSE s1

DisconnectOutcome(op, r1, r2) ==
    IF ~CloseSwallowed(r1) THEN Raised(op, r1, "")
    ELSE IF ~CloseSwallowed(r2) THEN Raised(op, r2, "")
    ELSE IF r1 # "none" \/ r2 # "none" THEN [Ok(op) EXCEPT !.msg = "close error suppressed"]
    ELSE Ok(op)

Disconnect(r1, r2) ==
    /\ phase = "live" /\ pc = "idle"
    /\ MayRaise(_sock, r1) /\ MayRaise(_base_sock, r2)
    /\ socks' = AfterDisconnect(r1, r2)
    /\ outcome' = DisconnectOutcome("disconnect", r1, r2)
    /\ engine' = NoEngine
    /\ tikoutput' = NoVal /\ result' = NoResult
    /\ ForgetLogin
    /\ ready' = FALSE
    /\ UNCHANGED << phase, kind, platform, adh_ok, verify_cert, verify_addr, _address, _port,
                    _base_sock, _sock, _api, pc >>

\* the instance is collected: __del__ runs disconnect()
Del(r1, r2) ==
    /\ phase = "live" /\ pc = "idle"
    /\ MayRaise(_sock, r1) /\ MayRaise(_base_sock, r2)
    /\ socks' = AfterDisconnect(r1, r2)
    /\ outcome' = DisconnectOutcome("del", r1, r2)
    /\ phase' = "dead"
    /\ engine' = NoEngine
    /\ tikoutput' = NoVal /\ result' = NoResult
    /\ ForgetLogin
    /\ ready' = FALSE
    /\ UNCHANGED << kind, platform, adh_ok, verify_cert, verify_addr, _address, _port,
                    _base_sock, _sock, _api, pc >>

\* a socket object nobody references any more is finalised by the runtime,
\* at once (reference counting) or at some later time (tracing collector)
Finalize(s) ==
    /\ s \in OpenSocks
    /\ ~Referenced(s)
    /\ socks' = Close(socks, s)
    /\ UNCHANGED << ready, phase, kind, platform, adh_ok, verify_cert, verify_addr, _address, _port,
                    _base_sock, _sock, _api, pc, cands, allow, created, tried,
                    outcome, engine, ctx, tikoutput, result >>

-----------------------------------------------------------------------------
Next ==
    \/ ConstructBase
    \/ \E a \in AddressInputs, p \in PortInputs \cup {DefaultPort} : ConstructClient(a, p)
    \/ \E a \in AddressInputs, p \in PortInputs \cup {DefaultSslPort}, vc \in BOOLEAN, va \in BOOLEAN :
            ConstructSslClient(a, p, vc, va)
    \/ GetAddress
    \/ GetPort
    \/ \E a \in AddressInputs : SetAddress(a)
    \/ \E p \in PortInputs : SetPort(p)
    \/ \E a \in BOOLEAN, net \in {<<>>} \cup CandLists : LoginStart(a, net)
    \/ TryCandidate
    \/ AfterLoop
    \/ ConnectPlain
    \/ \E t \in TlsResults, os \in Platforms, adh \in AdhAnswers : ConnectSsl(t, os, adh)
    \/ \E r \in EngineLoginReplies : Authenticate(r)
    \/ \E w \in WordsInputs : Talk(w)
    \/ \E r1 \in CloseResults, r2 \in CloseResults : Disconnect(r1, r2)
    \/ \E r1 \in CloseResults, r2 \in CloseResults : Del(r1, r2)
    \/ \E s \in SockIds : Finalize(s)

Spec == Init /\ [][Next]_vars

-----------------------------------------------------------------------------
(* Properties *)

SslFailed == Raised("login", "ClientError", "could not establish SSL connection")
OpenFailed == Raised("login", "ClientError", "could not open socket")

\* wrap_socket() was called by the last login()
Handshook == ctx.tls \in {"hsfail", "oserror", "ok"}

\* C1: the engine's login() receives send_plain_password = TRUE exactly when
\* the client is the TLS client or allow_insecure_auth_without_tls was passed
\* as true; a plain client without the flag logs in by challenge-response.
C1_PlainPasswordPolicy ==
    engine.login # "none" => ((engine.login = "plain") <=> (kind = "ssl" \/ allow))

C1_Witness == engine.login = "digest" /\ kind = "plain" /\ ~allow

\* the argument is no sequence, or holds an element that is not text
NotTextSequence(w) ==
    \/ w.t \notin {"list", "tuple", "str"}
    \/ \E i \in 1..Len(w.items) : w.items[i] # "str"

\* C2: talk() with a value that is no sequence, or with a non-text element,
\* raises ValueError, does not call the engine's talk() and changes nothing
\* of the session, whatever state the session is in.
C2_InvalidTalkRejected ==
    [][(outcome'.op = "talk" /\ \E w \in WordsInputs : NotTextSequence(w) /\ Talk(w)) =>
          /\ outcome'.exc = "ValueError"
          /\ ~engine'.talk
          /\ UNCHANGED << phase, _address, _port, _base_sock, _sock, _api, socks >>]_vars

C2_Witness ==
    /\ outcome.op = "talk" /\ outcome.exc = "ValueError"
    /\ _api # NoSock /\ socks[_api].st = "open"

\* what the claim asks of a port assignment of v on the way from one state to the next
PortAssigned(v) ==
    IF v \in 1..65535
    THEN _port' = Some(v) /\ outcome'.exc = "none"
    ELSE _port' = _port /\ outcome'.exc = "ValueError" /\ socks' = socks

\* C3: a port outside 1..65535 is refused with ValueError, no socket is
\* opened and the stored port stays; a port inside is stored as given; in the
\* port setter and in both client constructors.
C3_PortRange ==
    [][/\ outcome'.op = "set_port" =>
              \A v \in PortInputs : SetPort(v) => PortAssigned(v)
       /\ phase = "new" =>
           /\ \A a \in AddressInputs, v \in PortInputs \cup {DefaultPort} :
                  ConstructClient(a, v) => PortAssigned(v)
           /\ \A a \in AddressInputs, v \in PortInputs \cup {DefaultSslPort},
                 vc \in BOOLEAN, va \in BOOLEAN :
                  ConstructSslClient(a, v, vc, va) => PortAssigned(v)]_vars

C3_Witness == outcome.op = "set_port" /\ outcome.exc = "ValueError" /\ _port # None

\* C4: when every candidate fails, login() ends with ClientError "could not
\* open socket"; then _base_sock is None, every socket the attempt created is
\* closed, and the engine was neither built nor called.
C4_AllCandidatesFail ==
    /\ (pc = "idle" /\ outcome.op = "login" /\ cands # <<>>
          /\ \A i \in 1..Len(cands) : cands[i] # "ok")
        => outcome = OpenFailed
    /\ outcome = OpenFailed
        => /\ _base_sock = NoSock
           /\ \A s \in created : socks[s].st = "closed"
           /\ ~engine.made /\ engine.login = "none"

C4_Witness == outcome = OpenFailed /\ created # {} /\ Len(tried) = Len(cands)

\* C5: when the TLS handshake fails on a connected raw socket, login() ends
\* with ClientError "could not establish SSL connection" and the session holds
\* no open raw socket.
C5_HandshakeFailure ==
    ctx.tls \in {"hsfail", "oserror"}
    => /\ outcome = SslFailed
       /\ _base_sock # NoSock => socks[_base_sock].st # "open"

\* C6: at most one transport opened by the session is open at any time.
C6_AtMostOneTransport == Cardinality(OpenSocks) <= 1

\* C7: after disconnect() or the teardown of the instance no socket opened by
\* an earlier login() of the session is open.
C7_AllClosedAfterDisconnect == outcome.op \in {"disconnect", "del"} => OpenSocks = {}

\* C8: disconnect() never raises, errors of close() included, and a second
\* disconnect() in a row leaves the session as the first left it.
C8_DisconnectNeverRaises ==
    [][outcome'.op = "disconnect" =>
          \A r1 \in CloseResults, r2 \in CloseResults :
             Disconnect(r1, r2) =>
                 /\ outcome'.exc = "none"
                 /\ outcome.op = "disconnect" =>
                        UNCHANGED << phase, _address, _port, _base_sock, _sock, _api, socks >>]_vars

C8_Witness == outcome.op = "disconnect" /\ outcome.msg = "close error suppressed"

FirstDoneWithRet(x) ==
    /\ x.t = "list" /\ Len(x.items) >= 1
    /\ x.items[1].t = "tuple" /\ Len(x.items[1].items) = 2
    /\ x.items[1].items[1] = DoneTag
    /\ x.items[1].items[2].t = "dict"
    /\ HasKey(x.items[1].items[2], KeyRet)

\* a record of the sentence carries .id
SomeId(x) ==
    \E i \in 1..Len(x.items) :
        /\ x.items[i].t = "tuple" /\ Len(x.items[i].items) = 2
        /\ x.items[i].items[2].t = "dict"
        /\ HasKey(x.items[i].items[2], KeyId)

\* C10: when the first record is tagged done and carries ret, tik_to_json
\* returns the value of ret, also when records carry .id.
C10_ScalarShortCircuit ==
    (result # NoResult /\ FirstDoneWithRet(tikoutput))
    => result = Returns(Lookup(tikoutput.items[1].items[2], KeyRet))

C10_Witness ==
    /\ result # NoResult /\ FirstDoneWithRet(tikoutput) /\ SomeId(tikoutput)
    /\ result = Returns(VStr(<<"4", "2">>))

\* a sentence as the engine delivers it: a list of (tag, attributes) pairs
\* whose .id values, where present, are text
WellFormed(x) ==
    /\ x.t = "list"
    /\ \A i \in 1..Len(x.items) :
          /\ x.items[i] \in Records
          /\ HasKey(x.items[i].items[2], KeyId)
                => Lookup(x.items[i].items[2], KeyId).t = "str"

\* the attribute record of record i, and whether it carries the key k as its
\* .id without the leading marker
AttrsOf(x, i) == x.items[i].items[2]
CarriesId(x, i, k) ==
    /\ HasKey(AttrsOf(x, i), KeyId)
    /\ LET id == Lookup(AttrsOf(x, i), KeyId).s IN k = VStr(SubSeq(id, 2, Len(id)))

\* the first record of the sentence that carries k
FirstCarrier(x, k) ==
    CHOOSE i \in 1..Len(x.items) :
        CarriesId(x, i, k) /\ \A j \in 1..(i - 1) : ~CarriesId(x, j, k)

\* C11: on a well-formed sentence without the scalar short-circuit,
\* tik_to_json returns a mapping; its keys are exactly the .id values, first
\* character removed, of the records that carry .id, no key twice, in the
\* order of first appearance; each key maps to the whole attribute record of
\* a record carrying that id; a sentence without .id gives the empty mapping.
C11_MappingResult ==
    (result # NoResult /\ WellFormed(tikoutput) /\ ~FirstDoneWithRet(tikoutput))
    => /\ result.exc = "none" /\ result.v.t = "dict"
       /\ LET x == tikoutput
              m == result.v.items
          IN  /\ \A i \in 1..Len(x.items) :
                    HasKey(AttrsOf(x, i), KeyId)
                        => \E p \in 1..Len(m) : CarriesId(x, i, m[p].k)
              /\ \A p \in 1..Len(m) :
                    \E i \in 1..Len(x.items) :
                        CarriesId(x, i, m[p].k) /\ m[p].v = AttrsOf(x, i)
              /\ \A p \in 1..Len(m), q \in 1..Len(m) :
                    p < q => /\ m[p].k # m[q].k
                             /\ FirstCarrier(x, m[p].k) < FirstCarrier(x, m[q].k)
              /\ ~SomeId(x) => m = <<>>

\* two ids, the second record's id first seen before the third's, one id twice
C11_Witness ==
    /\ result # NoResult /\ WellFormed(tikoutput) /\ ~FirstDoneWithRet(tikoutput)
    /\ Len(tikoutput.items) = 3
    /\ CarriesId(tikoutput, 1, VStr(<<"2">>))
    /\ CarriesId(tikoutput, 2, VStr(<<"1">>))
    /\ CarriesId(tikoutput, 3, VStr(<<"2">>))
    /\ AttrsOf(tikoutput, 1) # AttrsOf(tikoutput, 3)
    /\ Len(result.v.items) = 2
    /\ result.v.items[1].k = VStr(<<"2">>)

EngineErrors == {"ApiError", "ApiUnrecoverableError"}

\* C12: an engine error of either kind raised by the engine's login() leaves
\* login() as ClientError "could not login", raised by the engine's talk() it
\* leaves talk() as ClientError "could not talk to api"; no call ends with an
\* engine error type.
C12_EngineErrorsTranslated ==
    /\ outcome.exc \notin EngineErrors
    /\ engine.reply \in EngineErrors
        => /\ outcome.op \in {"login", "talk"}
           /\ outcome.op = "login"
                => outcome = Raised("login", "ClientError", "could not login")
           /\ outcome.op = "talk"
                => outcome = Raised("talk", "ClientError", "could not talk to api")

C12_Witness ==
    /\ engine.reply = "ApiUnrecoverableError" /\ engine.login # "none"
    /\ outcome = Raised("login", "ClientError", "could not login")

\* C13: a login() that fails ends with ClientError, whichever step failed;
\* no error of the resolver, the socket layer, the TLS layer or the engine
\* leaves the call.
C13_LoginErrorsTranslated ==
    (outcome.op = "login" /\ outcome.exc \notin {"none", "running"})
        => outcome.exc = "ClientError"

\* C14: talk() (ending well or not), reading address or port and assigning
\* address or port (accepted or refused) leave _base_sock, _sock and _api as
\* they are and open or close no socket: a step that changes one of them is
\* none of these calls.
C14_ConnectionFrame ==
    [][~UNCHANGED << _base_sock, _sock, _api, socks >>
       => ~(\/ \E w \in WordsInputs : Talk(w)
            \/ GetAddress
            \/ GetPort
            \/ \E a \in AddressInputs : SetAddress(a)
            \/ \E p \in PortInputs : SetPort(p))]_vars

\* a logged-in session whose address was assigned while connected
C14_Witness ==
    /\ outcome.op = "set_address"
    /\ _api # NoSock /\ _sock = _api /\ socks[_sock].st = "open"

NotConfigured == Raised("login", "ClientError", "address has not been set")

\* the address is None or empty, or the port is None
EndpointUnset == _address = None \/ _address = Some("") \/ _port = None

\* C15: login() on a session whose address or port is unset ends with
\* ClientError "address has not been set" in its first step: the resolver is
\* not asked, no socket is created, and _base_sock, _sock and _api stay.
C15_UnsetEndpointRejected ==
    [][(/\ EndpointUnset /\ pc = "idle" /\ outcome'.op = "login"
        /\ \E a \in BOOLEAN, net \in {<<>>} \cup CandLists : LoginStart(a, net))
       => /\ outcome' = NotConfigured
          /\ pc' = "idle" /\ cands' = <<>> /\ created' = {}
          /\ UNCHANGED << _base_sock, _sock, _api, socks >>]_vars

C15_Witness ==
    outcome = NotConfigured /\ _address = Some("router") /\ _port = None

\* the connect step of login() is running or has just ended
InConnectStep == pc \in {"connect", "afterloop", "wrap"}

\* the candidates tried so far that got a socket
TriedWithSocket == {i \in 1..Len(tried) : cands[tried[i]] # "sockfail"}

\* C16: the candidates are tried in the resolver's order, one at a time; no
\* candidate is tried after one that connected; a candidate that failed has
\* its socket, if it got one, closed before the next is tried; after the first
\* candidate that connects the loop is left with exactly that candidate's
\* socket, open, as _base_sock.
C16_CandidatesInOrder ==
    /\ \A i \in 1..Len(tried) : tried[i] = i
    /\ Len(tried) <= Len(cands)
    /\ \A i \in 1..(Len(tried) - 1) : cands[tried[i]] # "ok"
    /\ pc = "connect" => \A i \in 1..Len(tried) : cands[tried[i]] # "ok"
    /\ InConnectStep =>
          /\ Cardinality(created) = Cardinality(TriedWithSocket)
          /\ \A s \in created \ {_base_sock} : socks[s].st = "closed"
          /\ IF tried # <<>> /\ cands[tried[Len(tried)]] = "ok"
             THEN /\ _base_sock \in created
                  /\ socks[_base_sock] = NewSock("open", FALSE)
                  /\ pc # "connect"
             ELSE tried # <<>> => _base_sock = NoSock

\* the first candidate failed at connect, the second connected
C16_Witness ==
    /\ pc = "wrap"
    /\ cands = << "connfail", "ok" >> /\ tried = << 1, 2 >>
    /\ Cardinality(created) = 2
    /\ socks[_base_sock].st = "open"

\* C17: when the first record of a sentence does not have the shape of a
\* done record with ret (no record, too short, another tag, no ret, not a
\* pair, attributes not a mapping), step 1 is passed over without an error
\* of its own and the result is what the mapping step gives for the sentence.
C17_ScalarMismatchIgnored ==
    (result # NoResult /\ tikoutput.t = "list" /\ ~FirstDoneWithRet(tikoutput))
        => result = MappingStep(tikoutput)

\* C18: when the mapping step cannot build the mapping (sentence not
\* iterable, record not a pair, attributes not a mapping, .id value without
\* a first character to strip), tik_to_json fails with ClientError and with
\* nothing else.
C18_MappingFailureIsClientError ==
    (result # NoResult /\ ~FirstDoneWithRet(tikoutput)
        /\ MappingBranch(tikoutput).exc # "none")
        => result = Raises("ClientError")

\* C19: with valid words talk() calls the engine only while the session is
\* ready, that is after a login() that returned normally and before a later
\* disconnect(); on a session that never logged in, whose last login()
\* failed, or that was disconnected, talk() starts no exchange.
C19_TalkOnlyWhenReady == engine.talk => ready

\* between two calls the engine the session holds is bound to _sock
EngineOnExchangeStream == (pc = "idle" /\ _api # NoSock) => _api = _sock

\* once the connect step of a plain client has succeeded, _sock is _base_sock
PlainStreamIsRawSocket ==
    (kind # "ssl" /\ (pc = "auth" \/ (pc = "idle" /\ engine.made))) => _sock = _base_sock

\* C20: between calls, an engine held by the session is bound to the stream
\* stored as _sock; every step of login() before the transport is ready (and so
\* every login() that fails before the engine is built) leaves _sock and _api
\* as they were; after a successful connect a plain client's _sock is its
\* _base_sock.
C20_EngineBoundToStream ==
    /\ [](EngineOnExchangeStream /\ PlainStreamIsRawSocket)
    /\ [][(pc # "auth" /\ pc' # "auth") => UNCHANGED << _sock, _api >>]_vars

\* a second login() failed in the handshake; engine and stream of the first stay
C20_Witness ==
    /\ outcome = SslFailed /\ ctx.tls = "hsfail"
    /\ _api # NoSock /\ _api = _sock /\ _base_sock # _sock
    /\ socks[_sock].st = "open"

====
